---- MODULE Spec2Model ----
(***************************************************************************)
(* Model of server.js: the single database connection (dbClient,           *)
(* isConnected, connectionRetries), connectDB with its bounded retry       *)
(* chain, the /api/health and /api/query handlers, and shutdown.           *)
(*                                                                         *)
(* Node runs one callback at a time, so every action is the code between   *)
(* two awaits: a handler's synchronous prefix (including the synchronous   *)
(* prefix of a connectDB() it calls without awaiting) or the continuation  *)
(* after one promise settles.                                              *)
(***************************************************************************)
EXTENDS Integers, FiniteSets, Sequences, TLC

\* ------------------------------------------------------------------ bounds
\* Number of request slots: requests (and the detached connectDB chains
\* they leave behind) that can be in progress at the same time.
MaxReq == 2

\* --------------------------------------------------------------- constants
MAX_RETRIES == 5

NULL == 0

\* process.exit has not been called
NotExited == -1

Startup == 0
Slots == 1..MaxReq
Procs == {Startup} \cup Slots

SigNames == {"SIGTERM", "SIGINT"}

\* Every place that can refer to a client: dbClient, each process's pending
\* promise, the shutdown's pending end().
NumRefs == MaxReq + 3

\* Client objects.  An id is recycled once nothing refers to the client, so one
\* id per place that can refer to a client, plus one for the client that
\* createClient() makes in the current step, is enough.
NumHandles == NumRefs + 1
Handles == 1..NumHandles

\* Request bodies' text field: absent, empty, or a statement.
Texts == {"undefined", "", "SELECT 1"}

\* error.code of a rejected query: two connection-fatal codes, a syntax
\* error, and an error object that carries no code.
ErrCodes == {"ECONNRESET", "57P01", "42601", "none"}

Min(a, b) == IF a < b THEN a ELSE b

VARIABLES
    dbClient,           \* NULL or the client the module variable refers to
    isConnected,        \* the module's flag
    connectionRetries,  \* the module's counter
    hstate,             \* per client: free / connecting / open / ending / closed
    pc,                 \* per process: where its callback chain stands
    ref,                \* per process: the client its pending promise belongs to
    sdpc,               \* shutdown: idle / ending (awaiting end())
    sdref,              \* the client whose end() shutdown awaits
    exitCode,           \* NotExited, or the status given to process.exit
    last,               \* what the last step did that a caller can observe
    lastOk,             \* dbClient is the client of the latest successful connect
    leaked,             \* an open client was dropped: nothing refers to it any more
    streak              \* failed connects since the last success (saturating)

vars == <<dbClient, isConnected, connectionRetries, hstate, pc, ref, sdpc,
          sdref, exitCode, last, lastOk, leaked, streak>>

\* The observable effects of one step.
\*   status     HTTP status sent in this step (0: none)
\*   db         the health document's database field
\*   code       error.code / message carried by the response
\*   calls      number of connectDB() invocations made by this step
\*   started    an invocation got past the isConnected check (an attempt began)
\*   dispatched a query was handed to a client
\*   ret        value a connectDB invocation returned in this step
\*   n          connectionRetries before the step
NoEv == [op |-> "init", status |-> 0, db |-> "", code |-> "",
         calls |-> 0, started |-> FALSE, dispatched |-> FALSE, ret |-> "",
         n |-> 0]

Ev(op) == [NoEv EXCEPT !.op = op, !.n = connectionRetries]

RefAt(s, i) == IF i = 1 THEN s.dbClient
               ELSE IF i = NumRefs THEN s.sdref
               ELSE s.ref[i - 2]

Cur == [dbClient |-> dbClient, isConnected |-> isConnected,
        connectionRetries |-> connectionRetries, hstate |-> hstate,
        pc |-> pc, ref |-> ref, sdpc |-> sdpc, sdref |-> sdref,
        exitCode |-> exitCode, last |-> last, lastOk |-> lastOk,
        leaked |-> leaked, streak |-> streak]

\* Client ids carry no meaning, so every state is kept in one numbering: the
\* clients still referred to are numbered in the order of RefAt.  IdMap gives
\* each such client its number.
IdMap(s) ==
    LET used == {RefAt(s, i) : i \in 1..NumRefs} \ {NULL}
        first(h) == CHOOSE i \in 1..NumRefs :
                        /\ RefAt(s, i) = h
                        /\ \A j \in 1..(i - 1) : RefAt(s, j) # h
    IN [h \in used |->
            Cardinality({RefAt(s, j) : j \in 1..first(h)} \ {NULL})]

\* The state renumbered by id.  Clients nothing refers to are forgotten (their
\* ids become free again); a forgotten client that was still open is noted as
\* leaked.
Collect(s, id) ==
    LET used == DOMAIN id
        new(h) == IF h = NULL THEN NULL ELSE id[h]
        dropped == {h \in Handles \ used : s.hstate[h] = "open"}
    IN [s EXCEPT !.dbClient = new(@),
                 !.sdref = new(@),
                 !.ref = [p \in Procs |-> new(@[p])],
                 !.hstate = [k \in Handles |->
                                IF \E h \in used : id[h] = k
                                THEN @[CHOOSE h \in used : id[h] = k]
                                ELSE "free"],
                 !.leaked = @ \/ dropped # {}]

\* Install the next state.  (Values are bound with \E so that each is computed
\* once per step.)
Commit(s0) ==
    \E id \in {IdMap(s0)} :
    \E s \in {Collect(s0, id)} :
       /\ dbClient' = s.dbClient
       /\ isConnected' = s.isConnected
       /\ connectionRetries' = s.connectionRetries
       /\ hstate' = s.hstate
       /\ pc' = s.pc
       /\ ref' = s.ref
       /\ sdpc' = s.sdpc
       /\ sdref' = s.sdref
       /\ exitCode' = s.exitCode
       /\ last' = s.last
       /\ lastOk' = s.lastOk
       /\ leaked' = s.leaked
       /\ streak' = s.streak

Init ==
    /\ dbClient = NULL
    /\ isConnected = FALSE
    /\ connectionRetries = 0
    /\ hstate = [h \in Handles |-> "free"]
    /\ pc = [p \in Procs |-> IF p = Startup THEN "start" ELSE "idle"]
    /\ ref = [p \in Procs |-> NULL]
    /\ sdpc = "idle"
    /\ sdref = NULL
    /\ exitCode = NotExited
    /\ last = NoEv
    /\ lastOk = FALSE
    /\ leaked = FALSE
    /\ streak = 0

Running == exitCode = NotExited

\* A new request takes the lowest idle slot (slots are interchangeable).
Accepts(p) ==
    /\ pc[p] = "idle"
    /\ \A q \in Slots : pc[q] = "idle" => p <= q
Listening == pc[Startup] # "start"

\* Who called the connectDB chain a process is running.
Origin(p) == IF p = Startup THEN "startServer" ELSE "handler"

\* Where a process goes when its connectDB chain (or its handler) returns.
Finished(p) == IF p = Startup THEN "done" ELSE "idle"

\* ------------------------------------------------------------ pg.Client
\* createClient(): a client nothing refers to yet (the spare id).
Fresh == NumHandles

\* client.end() is called: a live client starts closing.
EndCall(hs, h) ==
    [hs EXCEPT ![h] = IF @ \in {"connecting", "open"} THEN "ending" ELSE @]

\* the end() promise settled: the client is closed.
EndSettled(hs, h) ==
    [hs EXCEPT ![h] = IF @ = "ending" THEN "closed" ELSE @]

\* ------------------------------------------------------------ connectDB
\* mutant: the early return is missing
AlreadyConnected_Never(c) == FALSE

\* line 42: if (isConnected) return true
AlreadyConnected(c) == c

\* mutant: the retry is never refused
CanRetry_Always(n) == TRUE

\* mutant: off by one, <= for <
CanRetry_OffByOne(n) == n <= MAX_RETRIES

\* line 75: connectionRetries < MAX_RETRIES
CanRetry(n) == n < MAX_RETRIES

\* lines 50-59: dbClient = createClient(); await dbClient.connect()
OpenNew(s, p) ==
    [s EXCEPT !.dbClient = Fresh,
              !.lastOk = FALSE,
              !.hstate[Fresh] = "connecting",
              !.pc[p] = "c_conn",
              !.ref[p] = Fresh]

\* lines 41-59, up to the first await: what a call of connectDB() does before
\* it returns its promise to the caller.
ConnectDB(s, p) ==
    LET called == [s EXCEPT !.last.calls = @ + 1]
    IN IF AlreadyConnected(s.isConnected)
       THEN [called EXCEPT !.pc[p] = Finished(p),
                           !.ref[p] = NULL,
                           !.last.ret = "true"]
       ELSE IF s.dbClient # NULL
       THEN [called EXCEPT !.hstate = EndCall(@, s.dbClient),
                           !.pc[p] = "c_end",
                           !.ref[p] = s.dbClient,
                           !.last.started = TRUE]
       ELSE OpenNew([called EXCEPT !.last.started = TRUE], p)

\* line 47 settles (a rejection is swallowed by .catch), then lines 50-59.
EndDone(p) ==
    /\ Running
    /\ pc[p] = "c_end"
    /\ \E s \in {OpenNew([Cur EXCEPT !.hstate = EndSettled(@, ref[p]),
                                   !.last = Ev("end_done")], p)} : Commit(s)

\* line 60: isConnected = true
SuccessFlag == TRUE

\* mutant: the counter is not reset
SuccessRetries_Keep(n) == n

\* line 61: connectionRetries = 0
SuccessRetries(n) == 0

\* line 59 fulfilled, lines 60-63.
ConnectOk(p) ==
    /\ Running
    /\ pc[p] = "c_conn"
    /\ \E s \in {[Cur EXCEPT
            !.isConnected = SuccessFlag,
            !.connectionRetries = SuccessRetries(@),
            !.hstate[ref[p]] = IF @ = "connecting" THEN "open" ELSE @,
            !.lastOk = (dbClient = ref[p]),
            !.pc[p] = Finished(p),
            !.ref[p] = NULL,
            !.streak = 0,
            !.last = [Ev("connect_ok") EXCEPT !.ret = "true",
                                              !.code = Origin(p)]]} :
          Commit(s)

\* mutant: giving up starts the count afresh
ExhaustedRetries_Reset(n) == 0

\* lines 80-83: the else branch logs and returns false; the counter keeps
\* its value.
ExhaustedRetries(n) == n

\* line 59 rejected, lines 64-83 up to the sleep or the return false.
ConnectFail(p) ==
    /\ Running
    /\ pc[p] = "c_conn"
    /\ \E s \in {[Cur EXCEPT
                    !.isConnected = FALSE,
                    !.dbClient = NULL,
                    !.lastOk = FALSE,
                    !.hstate[ref[p]] = "closed",
                    !.ref[p] = NULL,
                    !.streak = Min(@ + 1, MAX_RETRIES + 1),
                    !.last = [Ev("connect_fail") EXCEPT !.code = Origin(p)]]} :
          IF CanRetry(connectionRetries)
          THEN Commit([s EXCEPT !.connectionRetries = @ + 1,
                                !.pc[p] = "c_sleep"])
          ELSE Commit([s EXCEPT !.connectionRetries = ExhaustedRetries(@),
                                !.pc[p] = Finished(p),
                                !.last.ret = "false"])

\* line 78 timer fires, line 79: return connectDB()
Wake(p) ==
    /\ Running
    /\ pc[p] = "c_sleep"
    /\ \E s \in {ConnectDB([Cur EXCEPT !.last = Ev("wake")], p)} : Commit(s)

\* process.exit(status): the process and the clients, requests and timers
\* it held are gone.  No line of shutdown or startServer assigns
\* connectionRetries, which is left as it was.
Exit(s, status) ==
    [s EXCEPT !.dbClient = NULL,
              !.isConnected = FALSE,
              !.hstate = [h \in Handles |-> "free"],
              !.pc = [p \in Procs |-> "done"],
              !.ref = [p \in Procs |-> NULL],
              !.sdpc = "idle",
              !.sdref = NULL,
              !.lastOk = FALSE,
              !.leaked = FALSE,
              !.streak = 0,
              !.exitCode = status,
              !.last.ret = "exit"]

\* ---------------------------------------------------------- startServer
\* lines 208-226: listen, then connectDB()
StartServer ==
    /\ Running
    /\ pc[Startup] = "start"
    /\ \E s \in {ConnectDB([Cur EXCEPT !.last = Ev("start")], Startup)} :
          Commit(s)

\* lines 229-236: app.listen throws, the catch exits with status 1
StartFail ==
    /\ Running
    /\ pc[Startup] = "start"
    /\ \E s \in {Exit([Cur EXCEPT !.last = Ev("start_fail")], 1)} : Commit(s)

\* ------------------------------------------------------ POST /api/query
\* mutant: the connected check is missing
QueryRejected_Never(c) == FALSE

\* line 129: if (!isConnected) -> 503
QueryRejected(c) == ~c

\* mutant: only an absent text is refused, an empty one passes
TextMissing_OnlyUndefined(t) == t = "undefined"

\* line 139: if (!text) -> 400
TextMissing(t) == t \in {"undefined", ""}

\* mutant: every error that carries a code counts as fatal
IsFatal_AnyCode(code) == code # "none"

\* mutant: the admin-shutdown code is not recognised
IsFatal_OnlyReset(code) == code = "ECONNRESET"

\* line 168: error.code === 'ECONNRESET' || error.code === '57P01'
IsFatal(code) == code \in {"ECONNRESET", "57P01"}

\* mutant: a fatal error clears the flag but nobody reconnects
QueryCatch_NoReconnect(s, p, code) ==
    [s EXCEPT !.pc[p] = "idle",
              !.ref[p] = NULL,
              !.last.status = 500,
              !.last.code = code,
              !.isConnected = IF IsFatal(code) THEN FALSE ELSE @]

\* lines 160-179: the catch block, for an error carrying `code`.
QueryCatch(s, p, code) ==
    LET r == [s EXCEPT !.pc[p] = "idle",
                       !.ref[p] = NULL,
                       !.last.status = 500,
                       !.last.code = code]
    IN IF IsFatal(code)
       THEN ConnectDB([r EXCEPT !.isConnected = FALSE], p)
       ELSE r

\* lines 128-149: the handler up to the await of dbClient.query.  A null
\* dbClient makes line 149 throw a TypeError (no code) into the catch.
QueryRequest(p, text) ==
    /\ Running /\ Listening
    /\ Accepts(p)
    /\ \E s \in {[Cur EXCEPT !.last = Ev("query")]} :
          IF QueryRejected(isConnected)
          THEN Commit([s EXCEPT !.last.status = 503,
                                !.last.code = "Database not connected"])
          ELSE IF TextMissing(text)
          THEN Commit([s EXCEPT !.last.status = 400,
                                !.last.code = "Query text is required"])
          ELSE IF dbClient = NULL
          THEN \E r \in {QueryCatch(s, p, "none")} : Commit(r)
          ELSE Commit([s EXCEPT !.pc[p] = "q_wait",
                                !.ref[p] = dbClient,
                                !.last.dispatched = TRUE])

\* line 149 fulfilled, lines 150-159.  Only an open client answers a query.
QueryOk(p) ==
    /\ Running
    /\ pc[p] = "q_wait"
    /\ hstate[ref[p]] = "open"
    /\ \E s \in {[Cur EXCEPT !.pc[p] = "idle",
                            !.ref[p] = NULL,
                            !.last = [Ev("query_done") EXCEPT !.status = 200]]} :
          Commit(s)

\* line 149 rejected, lines 160-179.
QueryErr(p, code) ==
    /\ Running
    /\ pc[p] = "q_wait"
    /\ \E s \in {QueryCatch([Cur EXCEPT !.last = Ev("query_done")], p, code)} :
          Commit(s)

\* ------------------------------------------------------ GET /api/health
\* line 92: isConnected ? 'connected' : 'disconnected'
HealthDatabase(c) == IF c THEN "connected" ELSE "disconnected"

\* mutant: the probe is made whatever the flag says
ShouldProbe_Always(c) == TRUE

\* line 101: if (isConnected) probe
ShouldProbe(c) == c

\* lines 105-112 and 116: the probe's catch block, then the response.
HealthCatch(s, p, msg) ==
    ConnectDB([s EXCEPT !.pc[p] = "idle",
                        !.ref[p] = NULL,
                        !.last.status = 200,
                        !.last.db = "error",
                        !.last.code = msg], p)

\* lines 88-103 (and 116 when no probe is made): the handler up to the await
\* of the probe.  A null dbClient makes line 103 throw into the probe's catch.
HealthRequest(p) ==
    /\ Running /\ Listening
    /\ Accepts(p)
    /\ \E s \in {[Cur EXCEPT !.last = [Ev("health") EXCEPT
                                        !.db = HealthDatabase(isConnected)]]} :
          IF ShouldProbe(isConnected)
          THEN IF dbClient = NULL
               THEN \E r \in {HealthCatch(s, p, "probe failed")} : Commit(r)
               ELSE Commit([s EXCEPT !.pc[p] = "h_wait",
                                     !.ref[p] = dbClient,
                                     !.last.db = "",
                                     !.last.dispatched = TRUE])
          ELSE Commit([s EXCEPT !.last.status = 200])

\* line 103 fulfilled, lines 104 and 116.
HealthOk(p) ==
    /\ Running
    /\ pc[p] = "h_wait"
    /\ hstate[ref[p]] = "open"
    /\ \E s \in {[Cur EXCEPT !.pc[p] = "idle",
                            !.ref[p] = NULL,
                            !.last = [Ev("health_done") EXCEPT
                                          !.status = 200,
                                          !.db = "connected"]]} :
          Commit(s)

\* line 103 rejected, lines 105-116.
HealthErr(p) ==
    /\ Running
    /\ pc[p] = "h_wait"
    /\ \E s \in {HealthCatch([Cur EXCEPT !.last = Ev("health_done")], p,
                              "probe failed")} :
          Commit(s)

\* ------------------------------------------------------------- shutdown
\* mutant: a failed close turns into a failure status
ShutdownExit_FailOnError(ok) == IF ok THEN 0 ELSE 1

\* line 201: process.exit(0), whether end() fulfilled or threw
ShutdownExit(ok) == 0

\* lines 191-195 (or 201 when dbClient is null): SIGTERM or SIGINT arrives
\* (lines 204-205 give both the same handler).  A signal arriving while an
\* earlier shutdown still awaits end() is not modelled.
Signal(g) ==
    /\ Running
    /\ sdpc = "idle"
    /\ \E s \in {[Cur EXCEPT !.last = Ev("signal")]} :
          IF dbClient # NULL
          THEN Commit([s EXCEPT !.hstate = EndCall(@, dbClient),
                                !.sdpc = "ending",
                                !.sdref = dbClient,
                                !.last.code = "end"])
          ELSE \E r \in {Exit(s, ShutdownExit(TRUE))} : Commit(r)

\* line 195 settles (fulfilled or thrown into the catch), lines 196-201.
ShutdownDone(ok) ==
    /\ Running
    /\ sdpc = "ending"
    /\ \E s \in {Exit([Cur EXCEPT !.last = [Ev("shutdown_done") EXCEPT
                            !.code = IF ok THEN "closed" ELSE "close error"]],
                       ShutdownExit(ok))} :
          Commit(s)

\* ------------------------------------------------------------------ next
Next ==
    \/ StartServer
    \/ StartFail
    \/ \E p \in Procs : EndDone(p)
    \/ \E p \in Procs : ConnectOk(p)
    \/ \E p \in Procs : ConnectFail(p)
    \/ \E p \in Procs : Wake(p)
    \/ \E p \in Slots, t \in Texts : QueryRequest(p, t)
    \/ \E p \in Slots : QueryOk(p)
    \/ \E p \in Slots, c \in ErrCodes : QueryErr(p, c)
    \/ \E p \in Slots : HealthRequest(p)
    \/ \E p \in Slots : HealthOk(p)
    \/ \E p \in Slots : HealthErr(p)
    \/ \E g \in SigNames : Signal(g)
    \/ \E ok \in BOOLEAN : ShutdownDone(ok)

Spec == Init /\ [][Next]_vars

\* The database accepts every new connection and answers every end(): no
\* connect() is rejected (so no retry sleeps), nothing stops the process, and
\* a pending end() or connect() settles.
LiveNext ==
    \/ StartServer
    \/ \E p \in Procs : EndDone(p)
    \/ \E p \in Procs : ConnectOk(p)
    \/ \E p \in Slots, t \in Texts : QueryRequest(p, t)
    \/ \E p \in Slots : QueryOk(p)
    \/ \E p \in Slots, c \in ErrCodes : QueryErr(p, c)
    \/ \E p \in Slots : HealthRequest(p)
    \/ \E p \in Slots : HealthOk(p)
    \/ \E p \in Slots : HealthErr(p)

LiveSpec ==
    /\ Init
    /\ [][LiveNext]_vars
    /\ \A p \in Procs : WF_vars(EndDone(p)) /\ WF_vars(ConnectOk(p))

\* ---------------------------------------------------------------- claims
Count(hs, st) == Cardinality({h \in Handles : hs[h] = st})

FatalCodes == {"ECONNRESET", "57P01"}

\* C1: a query that arrives while isConnected is false is answered 503 in the
\* same step, hands no query to any client, calls connectDB zero times, and
\* leaves dbClient, isConnected, connectionRetries and every client as they were.
C1_NotConnectedIs503 ==
    [][\A p \in Slots, t \in Texts :
        (~isConnected /\ last'.op = "query" /\ QueryRequest(p, t)) =>
            /\ last'.status = 503
            /\ ~last'.dispatched
            /\ last'.calls = 0
            /\ UNCHANGED <<dbClient, isConnected, connectionRetries, hstate,
                           pc, ref>>]_vars

\* C1 witness: a 503 was sent while the startup chain sleeps between retries.
C1_Witness ==
    /\ last.op = "query" /\ last.status = 503
    /\ pc[Startup] = "c_sleep"

\* C2: a query rejected with ECONNRESET or 57P01 leaves isConnected false,
\* makes exactly one connectDB call, which starts an attempt, and answers 500
\* carrying the original code.
C2_FatalDisconnectsAndReconnects ==
    [][\A p \in Slots, c \in FatalCodes :
        (last'.op = "query_done" /\ QueryErr(p, c)) =>
            /\ ~isConnected'
            /\ last'.status = 500 /\ last'.code = c
            /\ last'.calls = 1 /\ last'.started
            /\ pc'[p] \in {"c_end", "c_conn"}]_vars

\* C2 witness: a 57P01 was just answered 500 and the reconnect is pending.
C2_Witness ==
    /\ last.op = "query_done" /\ last.code = "57P01" /\ last.status = 500
    /\ ~isConnected /\ last.calls = 1
    /\ \E p \in Slots : pc[p] = "c_end"

FatalQueryError == last.op = "query_done" /\ last.code \in FatalCodes

\* C3: when the database accepts connections, a query that failed with a
\* fatal code was answered 500 and isConnected eventually becomes true again.
C3_RecoversAfterFatal ==
    /\ [](FatalQueryError => last.status = 500)
    /\ (FatalQueryError /\ ~isConnected) ~> isConnected

\* C3 witness: a connectDB chain started by a handler has connected.
C3_Witness ==
    /\ last.op = "connect_ok" /\ last.code = "handler"
    /\ isConnected

\* C4: while connects keep failing, after the N-th failure (N <= MAX_RETRIES)
\* connectionRetries is N and isConnected is false; a failure that finds the
\* counter at MAX_RETRIES returns false, leaves the counter there and ends the
\* chain (no sleep, no further attempt by that chain); a failure below
\* MAX_RETRIES adds one and sleeps.
C4_BoundedRetry ==
    /\ [](streak > 0 =>
            /\ ~isConnected
            /\ connectionRetries = Min(streak, MAX_RETRIES))
    /\ [][\A p \in Procs :
            (last'.op = "connect_fail" /\ ConnectFail(p)) =>
                IF connectionRetries < MAX_RETRIES
                THEN /\ connectionRetries' = connectionRetries + 1
                     /\ pc'[p] = "c_sleep"
                     /\ last'.ret = ""
                ELSE /\ connectionRetries' = MAX_RETRIES
                     /\ last'.ret = "false"
                     /\ pc'[p] = Finished(p)
                     /\ \A q \in Procs :
                            pc'[q] \in {"c_end", "c_conn", "c_sleep"} =>
                                (q # p /\ pc'[q] = pc[q])
                     /\ Count(hstate', "connecting") <= Count(hstate, "connecting")]_vars

\* C4 witness: the failure after MAX_RETRIES failures has returned false.
C4_Witness ==
    /\ last.op = "connect_fail" /\ last.ret = "false"
    /\ streak = MAX_RETRIES + 1
    /\ connectionRetries = MAX_RETRIES
    /\ \A p \in Procs : pc[p] \in {"idle", "done"}

\* C5: a fulfilled connect sets isConnected and puts connectionRetries to 0,
\* whatever the counter was.
C5_SuccessResets ==
    [][\A p \in Procs :
        (last'.op = "connect_ok" /\ ConnectOk(p)) =>
            (isConnected' /\ connectionRetries' = 0)]_vars

\* C5 witness: a connect succeeded when the counter stood at MAX_RETRIES.
C5_Witness ==
    /\ last.op = "connect_ok" /\ last.n = MAX_RETRIES
    /\ isConnected /\ connectionRetries = 0

\* C6: every health response is a 200; its database field is connected after
\* a fulfilled probe, disconnected when isConnected was false (and then no
\* probe is dispatched), error after a failed probe.
C6_HealthAlways200 ==
    [][\A p \in Slots :
        /\ (last'.op = "health_done" /\ HealthOk(p)) =>
              (last'.status = 200 /\ last'.db = "connected")
        /\ (last'.op = "health_done" /\ HealthErr(p)) =>
              (last'.status = 200 /\ last'.db = "error")
        /\ (last'.op = "health" /\ HealthRequest(p)) =>
              IF isConnected
              THEN \/ last'.dispatched /\ last'.status = 0
                   \/ last'.status = 200 /\ last'.db = "error"
              ELSE /\ last'.status = 200 /\ last'.db = "disconnected"
                   /\ ~last'.dispatched
                   /\ pc'[p] = "idle"]_vars

\* C6 witness: a probe failed while connected and the answer was 200 / error.
C6_Witness ==
    /\ last.op = "health_done" /\ last.status = 200 /\ last.db = "error"
    /\ isConnected

\* C7 (as claimed): a health response that reports database=error while the
\* supervisor is Connected has started a reconnect attempt.
C7_ProbeFailureReconnects ==
    (last.op = "health_done" /\ last.db = "error" /\ isConnected) =>
        (last.status = 200 /\ last.calls = 1 /\ last.started)

\* C8 (as claimed): a query without text is answered 400 in every
\* supervisor state and changes nothing.
C8_MissingTextAlways400 ==
    [][\A p \in Slots, t \in {"undefined", ""} :
        (last'.op = "query" /\ QueryRequest(p, t)) =>
            /\ last'.status = 400
            /\ UNCHANGED <<dbClient, isConnected, connectionRetries>>]_vars

\* C8 (amended): a query without text is answered 400 "Query text is
\* required" when isConnected is true and 503 when it is false; either way no
\* query is dispatched, connectDB is not called, and dbClient, isConnected,
\* connectionRetries and every client stay as they were.
C8_MissingText400WhenConnected ==
    [][\A p \in Slots, t \in {"undefined", ""} :
        (last'.op = "query" /\ QueryRequest(p, t)) =>
            /\ IF isConnected
               THEN last'.status = 400 /\ last'.code = "Query text is required"
               ELSE last'.status = 503
            /\ ~last'.dispatched
            /\ last'.calls = 0
            /\ UNCHANGED <<dbClient, isConnected, connectionRetries, hstate,
                           pc, ref>>]_vars

\* C8 witness: a 400 was sent while connected.
C8_Witness ==
    /\ last.op = "query" /\ last.status = 400
    /\ isConnected

\* C9: a signal with a client present calls end() on it and waits; the
\* process then exits with status 0 whether end() fulfilled or threw; a signal
\* with no client exits with status 0 at once.
C9_ShutdownExitsZero ==
    [][/\ \A g \in SigNames :
            (last'.op = "signal" /\ Signal(g)) =>
                IF dbClient # NULL
                THEN /\ exitCode' = NotExited
                     /\ sdpc' = "ending"
                     /\ sdref' = dbClient'
                     /\ hstate'[sdref'] \in {"ending", "closed"}
                ELSE exitCode' = 0
       /\ \A ok \in BOOLEAN :
            (last'.op = "shutdown_done" /\ ShutdownDone(ok)) =>
                exitCode' = 0]_vars

\* C9 witness: end() threw and the process exited with status 0.
C9_Witness ==
    /\ last.op = "shutdown_done" /\ last.code = "close error"
    /\ exitCode = 0

\* C10: a connectDB call made while isConnected is true returns true in the
\* same step, creates no client, ends none, and leaves dbClient, isConnected
\* and connectionRetries unchanged.
C10_ConnectIdempotent ==
    [][\A p \in Procs :
        (/\ isConnected
         /\ last'.calls > 0
         /\ \/ last'.op = "wake" /\ Wake(p)
            \/ last'.op = "health_done" /\ HealthErr(p)
            \/ last'.op = "health" /\ p \in Slots /\ HealthRequest(p)) =>
            /\ last'.calls = 1
            /\ last'.ret = "true"
            /\ ~last'.started
            /\ pc'[p] = Finished(p)
            /\ UNCHANGED <<dbClient, isConnected, connectionRetries>>
            /\ Count(hstate', "connecting") = Count(hstate, "connecting")
            /\ Count(hstate', "ending") = Count(hstate, "ending")]_vars

\* C10 witness: a sleeping retry chain woke up to find the flag already true
\* and returned true.
C10_Witness ==
    /\ last.op = "wake" /\ last.ret = "true"
    /\ isConnected

\* Clients that are open now, counting one for clients that were dropped while
\* open (the process can no longer close those).
OpenClients ==
    Cardinality({h \in Handles : hstate[h] = "open"})
        + (IF leaked THEN 1 ELSE 0)

\* Processes inside a connectDB invocation (closing the stale client,
\* connecting, or sleeping before the retry).
InConnect == {p \in Procs : pc[p] \in {"c_end", "c_conn", "c_sleep"}}

\* C11 (as claimed): at most one open client exists at any time, and no
\* client is dropped while still open.
C11_AtMostOneOpenClient ==
    /\ OpenClients <= 1
    /\ ~leaked

\* No connectDB invocation is in progress and the flag is false: the
\* supervisor is Disconnected (neither Connected nor Connecting).
Disconnected == ~isConnected /\ InConnect = {}

\* C12 (as claimed): while isConnected is true, dbClient is non-null and is
\* the client of the most recent successful connect; while the supervisor is
\* Disconnected, dbClient is null.
C12_StateMatchesClient ==
    /\ isConnected => (dbClient # NULL /\ lastOk)
    /\ Disconnected => dbClient = NULL

\* C13 (as claimed): at most one connectDB invocation is in progress at any
\* time, from its start to its success or final failure.
C13_OneConnectAtATime == Cardinality(InConnect) <= 1

\* C14: connectionRetries stays within 0..MAX_RETRIES in every reachable
\* state, also while several connectDB invocations interleave; a rejected
\* connect() that finds it below MAX_RETRIES adds exactly one, and nothing
\* else ever raises it.
C14_RetryCounterInRange ==
    /\ [](connectionRetries \in 0..MAX_RETRIES)
    /\ [][\A p \in Procs :
            (last'.op = "connect_fail" /\ connectionRetries < MAX_RETRIES
                /\ ConnectFail(p)) =>
                    connectionRetries' = connectionRetries + 1]_vars
    /\ [][connectionRetries' > connectionRetries =>
            (last'.op = "connect_fail"
                /\ connectionRetries' = connectionRetries + 1)]_vars

\* C14 witness: two connectDB invocations are in progress and a rejected
\* connect() has just raised the counter to MAX_RETRIES.
C14_Witness ==
    /\ last.op = "connect_fail" /\ last.ret = ""
    /\ connectionRetries = MAX_RETRIES
    /\ Cardinality(InConnect) >= 2

\* C15: connectionRetries goes down only in the step of a fulfilled
\* connect(), which puts it to 0: giving up, a request handler (failed query
\* or health probe, with or without a connectDB call) and shutdown leave it
\* as it is.  A connectDB started with the counter at MAX_RETRIES therefore
\* starts from MAX_RETRIES, and its first rejected connect() returns false
\* with the counter still at MAX_RETRIES.
C15_OnlySuccessLowersRetries ==
    /\ [][connectionRetries' < connectionRetries =>
            (last'.op = "connect_ok" /\ connectionRetries' = 0)]_vars
    /\ [][last'.op \in {"query", "query_done", "health", "health_done",
                        "signal", "shutdown_done", "start_fail"} =>
            connectionRetries' = connectionRetries]_vars
    /\ [][\A p \in Procs :
            (last'.op = "connect_fail" /\ connectionRetries = MAX_RETRIES
                /\ ConnectFail(p)) =>
                    /\ connectionRetries' = MAX_RETRIES
                    /\ last'.ret = "false"
                    /\ pc'[p] = Finished(p)]_vars

\* C15 witness: with no connectDB in progress and the counter left at
\* MAX_RETRIES by a chain that gave up, a late fatal query error has started
\* a new connectDB, which begins with the counter still at MAX_RETRIES.
C15_Witness ==
    /\ last.op = "query_done" /\ last.code \in FatalCodes /\ last.started
    /\ last.n = MAX_RETRIES
    /\ connectionRetries = MAX_RETRIES
    /\ streak = MAX_RETRIES + 1
    /\ Cardinality(InConnect) = 1

\* C16: a dispatched query rejected with a code other than ECONNRESET and
\* 57P01 (or with none) is answered 500 and changes nothing else: dbClient,
\* the state of its client, isConnected and connectionRetries stay as they
\* were, connectDB is not called, no client is created or closed (an open
\* client that only this request still referred to stays open, out of the
\* process's reach) and no other process moves.
C16_NonFatalErrorChangesNothing ==
    [][\A p \in Slots, code \in ErrCodes \ FatalCodes :
        (last'.op = "query_done" /\ QueryErr(p, code)) =>
            /\ last'.status = 500 /\ last'.code = code
            /\ last'.calls = 0 /\ ~last'.started
            /\ UNCHANGED <<dbClient, isConnected, connectionRetries, sdpc>>
            /\ dbClient # NULL => hstate'[dbClient'] = hstate[dbClient]
            /\ \A st \in {"connecting", "ending"} :
                    Count(hstate', st) = Count(hstate, st)
            /\ Count(hstate', "open") <= Count(hstate, "open")
            /\ Count(hstate', "open") < Count(hstate, "open") => leaked'
            /\ pc'[p] = "idle"
            /\ \A q \in Procs \ {p} : pc'[q] = pc[q]]_vars

\* C16 witness: a query failed with a syntax error (42601) and the
\* supervisor is still connected on an open client.
C16_Witness ==
    /\ last.op = "query_done" /\ last.code = "42601" /\ last.status = 500
    /\ isConnected
    /\ dbClient # NULL /\ hstate[dbClient] = "open"

\* The promises and timers the code bounds do settle: connect() within
\* connectionTimeoutMillis (line 36), query() within query_timeout (line 37),
\* the retry sleep after RETRY_DELAY (line 78).  end() has no timeout
\* anywhere (lines 47 and 195), so nothing is promised about it.
HangSpec ==
    /\ Init /\ [][Next]_vars
    /\ \A p \in Procs :
        /\ WF_vars(ConnectOk(p) \/ ConnectFail(p))
        /\ WF_vars(Wake(p))
    /\ \A p \in Slots :
        /\ WF_vars(QueryOk(p) \/ \E code \in ErrCodes : QueryErr(p, code))
        /\ WF_vars(HealthOk(p) \/ HealthErr(p))

\* C17 (as claimed): once a termination signal has been received the process
\* eventually exits, also when closing the client never completes.
C17_ShutdownBounded == (sdpc = "ending") ~> (exitCode # NotExited)

\* C18 (as claimed): whenever a query or health handler finds isConnected
\* true and goes on to use dbClient (line 149 or line 103), dbClient is
\* non-null and its client is open: connected, and neither closing nor a
\* replacement that is still connecting.
C18_DispatchSeesOpenClient ==
    [][(/\ last'.op \in {"query", "health"}
        /\ (last'.dispatched \/ last'.code \in {"none", "probe failed"})) =>
            (dbClient # NULL /\ hstate[dbClient] = "open")]_vars

\* No query and no health probe is awaiting its answer.
NoRequestInFlight == \A p \in Slots : pc[p] \notin {"q_wait", "h_wait"}

\* C19 (as claimed): once a connectDB chain has returned false (streak is
\* past MAX_RETRIES), with isConnected false and no query or probe in flight,
\* no later step starts a connect attempt and isConnected stays false as
\* long as the process runs.
C19_GivenUpStaysDisconnected ==
    [][(/\ streak = MAX_RETRIES + 1
        /\ ~isConnected
        /\ NoRequestInFlight
        /\ exitCode' = NotExited) =>
            /\ ~isConnected'
            /\ Count(hstate', "connecting") <= Count(hstate, "connecting")]_vars

\* C20 (as claimed): while the process runs, isConnected goes from true to
\* false only in the catch of a query that was dispatched on the client
\* dbClient holds now and was rejected with a fatal code; a late fatal error
\* of a query dispatched on a client replaced since leaves it true.
C20_OnlyActiveClientDisconnects ==
    [][(isConnected /\ ~isConnected' /\ exitCode' = NotExited) =>
        /\ last'.op = "query_done" /\ last'.code \in FatalCodes
        /\ \E p \in Slots :
            /\ pc[p] = "q_wait" /\ pc'[p] # "q_wait"
            /\ ref[p] = dbClient]_vars

====
